---- MODULE Spec2Model ----
(***************************************************************************)
(* Request lifecycle of the ai-trip-planner / WNBA team-builder front end: *)
(* the submission form (TripPlannerForm, RosterBuilderForm), the App       *)
(* component's submit handler (handlePlanTrip, handleBuildRoster), the     *)
(* network call it awaits, and the reset handler.                          *)
(*                                                                         *)
(* Three builds of the App are in the source and are told apart by `app`:  *)
(*   "trip"         App.tsx:85-121   handlePlanTrip + TripPlannerForm      *)
(*   "roster"       App (lazy)       handleBuildRoster with an error state *)
(*   "rosterInline" App.tsx:502-536  handleBuildRoster that stores the     *)
(*                                   failure in rosterResult               *)
(***************************************************************************)
EXTENDS Integers, Sequences, FiniteSets, TLC

VARIABLES
    app,          \* which build of the App is running (fixed after Init)
    formData,     \* useState formData of the form: field name -> string
    formMounted,  \* the form component is rendered
    loading,      \* useState loading of App
    result,       \* useState rosterResponse / tripResponse / rosterResult: <<>> is null
    error,        \* useState error of App: <<>> is null
    inflight,     \* fetch promises not yet settled: records [id, payload, startedAt]
    now,          \* wall clock, ms
    fetchCount,   \* observation: number of fetch() calls issued so far
    submitCount,  \* observation: number of onSubmit invocations so far
    lastOutcome,  \* observation: outcome of the most recently issued call
    settled,      \* observation: per payload, how its latest settled call ended
    cache,        \* response cache: entries [fingerprint, value, storedAt, expiresAt]
    lastSet,      \* observation: per fingerprint, the latest set(): [fingerprint, value, at, ttl]
    lastGet,      \* observation: the latest get(): [fingerprint, value, at]
    timeout,      \* debounce closure: the pending setTimeout, <<>> or <<[due, args]>>
    inThrottle,   \* throttle closure: the inThrottle flag
    throttleTimer,\* throttle closure: the pending setTimeout, <<>> or <<due>>
    calls,        \* observation: calls of the wrapped callable, [at, args]
    invoked,      \* observation: invocations of the underlying function, [at, args]
    formVersion,  \* which checkModelHealth the form has (fixed after Init)
    modelStatus,  \* useState modelStatus / modelHealth of the form: backend -> boolean
    modelType,    \* formData.model_type
    probes,       \* GET /models/health calls not yet settled: probe ids
    probeCount,   \* observation: number of probes issued so far
    lastProbe,    \* observation: the most recently settled probe and its outcome
    lazyStatus,   \* status of each lazy component's handle
    lazyLoads,    \* observation: how often each handle's loader has run
    lazyModule,   \* the module a resolved handle holds, <<>> before
    suspended,    \* renders of each lazy component waiting for its import
    delivered,    \* observation: what each finished render got, [render, module]
    renderCount,  \* observation: renders of each lazy component so far
    priorities,   \* formData.priorities of the roster form: a list
    capTarget,    \* formData.cap_target of the roster form
    fpPayload,    \* a request payload being built: <<key, value>> in insertion order
    lastFp        \* observation: the latest fingerprint computed, <<>> or <<[payload, fp]>>

\* the App and its form
appVars == <<app, formData, formMounted, loading, result, error, inflight,
             fetchCount, submitCount, lastOutcome, settled>>

\* the response cache
cacheVars == <<cache, lastSet, lastGet>>

\* everything the App and its form do not touch
\* the closures of PerformanceUtils.debounce and PerformanceUtils.throttle
utilVars == <<timeout, inThrottle, throttleTimer, calls, invoked>>

\* the model health monitor and the model selection of the roster form
healthVars == <<formVersion, modelStatus, modelType, probes, probeCount, lastProbe>>

\* the lazily loaded components
lazyVars == <<lazyStatus, lazyLoads, lazyModule, suspended, delivered, renderCount>>

\* the optional fields of the roster form
optVars == <<priorities, capTarget>>

\* the request fingerprint
fpVars == <<fpPayload, lastFp>>

auxVars == <<cacheVars, utilVars, healthVars, lazyVars, optVars, fpVars>>

vars == <<appVars, now, auxVars>>

(***************************************************************************)
(* Bounds of the model.                                                    *)
(***************************************************************************)
MaxSubmits == 3
MaxInFlight == 2
TickMs == 30000
MaxNow == 90000

MaxCalls == 3
MaxProbes == 2
MaxHealthSubmits == 1
MaxRenders == 4
UtilTickMs == 50
MaxUtilNow == 600

(***************************************************************************)
(* Program constants.                                                      *)
(***************************************************************************)
ApiTimeout == 60000
CacheDuration == 300000
DebounceDelay == 300
ThrottleDelay == 100

Apps == {"trip", "roster", "rosterInline"}

HasErrorState == app # "rosterInline"

(***************************************************************************)
(* The forms.                                                              *)
(***************************************************************************)
RequiredFields ==
    IF app = "trip" THEN {"destination", "duration"}
                    ELSE {"team", "season", "strategy"}

\* values a field can be given by the user
FieldValues(f) ==
    CASE f = "destination" -> {"", " ", "Tokyo"}
      [] f = "duration"    -> {"", "7 days"}
      [] f = "team"        -> {"", "Las Vegas Aces", "Minnesota Lynx"}
      [] f = "season"      -> {"", "2025"}
      [] f = "strategy"    -> {"", "championship"}

\* String.prototype.trim on the strings of the model
trim(s) == IF s = " " THEN "" ELSE s

\* useState initial value of formData (required fields)
InitialFormData == [f \in RequiredFields |-> ""]

\* a validity that looks at the first required field only
isFormValid_firstFieldOnly(fd) ==
    \E f \in DOMAIN fd : f \in {"team", "destination"} /\ fd[f] # "" /\ fd[f] # " "

\* const isFormValid = formData.x.trim() !== '' && ...
isFormValid(fd) == \A f \in DOMAIN fd : trim(fd[f]) # ""

\* a guard that also wants the selected backend reported available
handleSubmitGuard_requiresAvailable(fd) ==
    /\ \A f \in DOMAIN fd : fd[f] # ""
    /\ modelType \in DOMAIN modelStatus
    /\ modelStatus[modelType]

\* if (formData.x && formData.y ...) : JavaScript truthiness of a string
handleSubmitGuard(fd) == \A f \in DOMAIN fd : fd[f] # ""

\* the button without the loading term: disabled={!isFormValid}
SubmitDisabled_ignoresLoading == ~isFormValid(formData)

\* <Button type="submit" disabled={!isFormValid || loading}>
SubmitDisabled == ~isFormValid(formData) \/ loading

\* <FormControl disabled={loading}> around every input; the roster form
\* whose health check keeps the old value has no disabled prop on its inputs
FieldsDisabled ==
    loading /\ ~(app # "trip" /\ formVersion = "keepsOnFailure")

(***************************************************************************)
(* Texts.  A text is a record so that a template literal keeps its parts.  *)
(***************************************************************************)
Text(prefix, text, status) == [prefix |-> prefix, text |-> text, status |-> status]

\* `HTTP error! status: ${response.status}`
HttpErrorMessage(status) == Text("", "HTTP error! status: ", status)

\* message of the TypeError a rejected fetch() carries
NetworkErrorMessage == Text("", "Failed to fetch", 0)

HttpStatuses == {429, 500}
ResultTexts == {"roster analysis", "rate limit reached, try again"}

\* what a call can come back with
Outcomes ==
    [kind : {"ok"}, text : ResultTexts, status : {200}]
      \cup [kind : {"http"}, text : {""}, status : HttpStatuses]
      \cup [kind : {"network"}, text : {""}, status : {0}]

NoOutcome == [kind |-> "none", text |-> "", status |-> 0]
PendingOutcome == [kind |-> "pending", text |-> "", status |-> 0]

\* err.message in the catch block
ErrorMessage(o) ==
    IF o.kind = "http" THEN HttpErrorMessage(o.status) ELSE NetworkErrorMessage

\* a client that reads the result text and files rate-limit text as an error
ResponseData_reclassifies(o) ==
    IF o.text = "rate limit reached, try again"
      THEN [result |-> Text("Error: ", o.text, 0), agent_type |-> "error"]
      ELSE [result |-> Text("", o.text, 0), agent_type |-> "roster_builder"]

\* await response.json()
ResponseData(o) == [result |-> Text("", o.text, 0), agent_type |-> "roster_builder"]

\* { result: `Error: ${error.message}`, agent_type: 'error' }
ErrorData(o) ==
    [result |-> Text("Error: ", ErrorMessage(o).text, ErrorMessage(o).status),
     agent_type |-> "error"]

\* initial state of the response cache: empty
CacheInit ==
    /\ cache = {}
    /\ lastSet = {}
    /\ lastGet = [fingerprint |-> "", value |-> <<>>, at |-> 0]

\* let timeout; let inThrottle; : both closures as created
UtilInit ==
    /\ timeout = <<>>
    /\ inThrottle = FALSE
    /\ throttleTimer = <<>>
    /\ calls = <<>>
    /\ invoked = <<>>

FormVersions == {"resetsOnFailure", "keepsOnFailure", "noModelSelector"}

NoProbe == [id |-> 0, kind |-> "none"]

\* useState({ openai: false, ollama: false }); model_type: 'openai'
HealthInit ==
    /\ formVersion \in FormVersions
    /\ modelStatus = [openai |-> FALSE, ollama |-> FALSE]
    /\ modelType = "openai"
    /\ probes = {}
    /\ probeCount = 0
    /\ lastProbe = NoProbe

\* the same with one form picked, for the specifications the form is no part of
HealthAtRest ==
    /\ formVersion = "resetsOnFailure"
    /\ modelStatus = [openai |-> FALSE, ollama |-> FALSE]
    /\ modelType = "openai"
    /\ probes = {}
    /\ probeCount = 0
    /\ lastProbe = NoProbe

\* the lazily loaded components and the statuses of a lazy handle
LazyNames == {"RosterBuilderForm", "TripResults"}

LazyStatuses == {"Uninitialized", "Pending", "Resolved", "Rejected"}

LazyInit ==
    /\ lazyStatus = [n \in LazyNames |-> "Uninitialized"]
    /\ lazyLoads = [n \in LazyNames |-> 0]
    /\ lazyModule = [n \in LazyNames |-> <<>>]
    /\ suspended = [n \in LazyNames |-> {}]
    /\ delivered = [n \in LazyNames |-> {}]
    /\ renderCount = [n \in LazyNames |-> 0]

\* priorities: [], cap_target: ''
OptInit == priorities = <<>> /\ capTarget = ""

FpInit == fpPayload = <<>> /\ lastFp = <<>>

AuxInit == CacheInit /\ UtilInit /\ HealthAtRest /\ LazyInit /\ OptInit /\ FpInit

(***************************************************************************)
(* Initial state: the App and the form as constructed by useState.         *)
(***************************************************************************)
Init ==
    /\ app \in Apps
    /\ formData = InitialFormData
    /\ formMounted = TRUE
    /\ loading = FALSE
    /\ result = <<>>
    /\ error = <<>>
    /\ inflight = {}
    /\ now = 0
    /\ fetchCount = 0
    /\ submitCount = 0
    /\ lastOutcome = NoOutcome
    /\ settled = {}
    /\ AuxInit

(***************************************************************************)
(* handleInputChange / handleSelectChange: setFormData({...prev, [name]:   *)
(* value}).  A disabled control takes no input.                            *)
(***************************************************************************)
handleSelectChange(f, v) ==
    /\ formMounted
    /\ ~FieldsDisabled
    /\ formData[f] # v
    /\ formData' = [formData EXCEPT ![f] = v]
    /\ UNCHANGED <<app, formMounted, loading, result, error, inflight, now,
                   fetchCount, submitCount, lastOutcome, settled>>
    /\ UNCHANGED auxVars

(***************************************************************************)
(* A handler that keeps every settled outcome, failures included, and      *)
(* serves a stored one instead of calling the backend.                     *)
(***************************************************************************)
handleBuildRoster_servesStoredFailure(p) ==
    /\ fetchCount < MaxSubmits
    /\ Cardinality(inflight) < MaxInFlight
    /\ submitCount' = submitCount + 1
    /\ IF \E s \in settled : s.payload = p /\ s.kind # "ok"
         THEN /\ loading' = FALSE
              /\ result' = <<>>
              /\ error' = <<NetworkErrorMessage>>
              /\ UNCHANGED <<inflight, fetchCount, lastOutcome>>
         ELSE /\ loading' = TRUE
              /\ error' = <<>>
              /\ result' = <<>>
              /\ inflight' = inflight \cup
                     {[id |-> fetchCount + 1, payload |-> p, startedAt |-> now]}
              /\ fetchCount' = fetchCount + 1
              /\ lastOutcome' = PendingOutcome
    /\ UNCHANGED <<app, formData, formMounted, now, settled>>
    /\ UNCHANGED auxVars

(***************************************************************************)
(* handlePlanTrip / handleBuildRoster up to the await of fetch():          *)
(* setLoading(true); setError(null); setResponse(null); fetch(...).        *)
(***************************************************************************)
handleBuildRoster(p) ==
    /\ fetchCount < MaxSubmits
    /\ Cardinality(inflight) < MaxInFlight
    /\ loading' = TRUE
    /\ error' = <<>>
    /\ result' = <<>>
    /\ inflight' = inflight \cup
           {[id |-> fetchCount + 1, payload |-> p, startedAt |-> now]}
    /\ fetchCount' = fetchCount + 1
    /\ submitCount' = submitCount + 1
    /\ lastOutcome' = PendingOutcome
    /\ UNCHANGED <<app, formData, formMounted, now, settled>>
    /\ UNCHANGED auxVars

(***************************************************************************)
(* A submit path that checks neither the button's validity term nor the    *)
(* handler's own guard.                                                    *)
(***************************************************************************)
handleSubmit_unvalidated ==
    /\ formMounted
    /\ ~loading
    /\ handleBuildRoster(formData)

(***************************************************************************)
(* The user activates the submit button (click, or Enter in a field): a    *)
(* disabled button submits nothing; otherwise handleSubmit runs its own    *)
(* guard and calls onSubmit(formData).                                     *)
(***************************************************************************)
handleSubmit ==
    /\ formMounted
    /\ ~SubmitDisabled
    /\ handleSubmitGuard(formData)
    /\ handleBuildRoster(formData)

\* record of how the call for payload p ended, replacing any earlier one
Settle(c, o) ==
    {s \in settled : s.payload # c.payload}
        \cup {[payload |-> c.payload, kind |-> o.kind, text |-> o.text,
               status |-> o.status, at |-> now]}

(***************************************************************************)
(* The handler's writes without a finally block: setLoading(false) only at *)
(* the end of the try body, so a thrown failure leaves loading as it was.  *)
(***************************************************************************)
tryCatchFinally_noFinally(o) ==
    /\ result' = IF o.kind = "ok" THEN <<ResponseData(o)>>
                 ELSE IF HasErrorState THEN result
                 ELSE <<ErrorData(o)>>
    /\ error' = IF o.kind # "ok" /\ HasErrorState THEN <<ErrorMessage(o)>>
                ELSE error
    /\ loading' = IF o.kind = "ok" THEN FALSE ELSE loading

(***************************************************************************)
(* The rest of the handler, run when the awaited fetch() settles with      *)
(* outcome o.  try: a non-ok response throws, otherwise setResponse(data); *)
(* catch: setError(message), or in the inline build setRosterResult of an  *)
(* error result; finally: setLoading(false).                               *)
(***************************************************************************)
tryCatchFinally(o) ==
    /\ result' = IF o.kind = "ok" THEN <<ResponseData(o)>>
                 ELSE IF HasErrorState THEN result
                 ELSE <<ErrorData(o)>>
    /\ error' = IF o.kind # "ok" /\ HasErrorState THEN <<ErrorMessage(o)>>
                ELSE error
    /\ loading' = FALSE

(***************************************************************************)
(* A settlement that re-issues a failed call (retryAttempts) instead of    *)
(* surfacing the failure.                                                  *)
(***************************************************************************)
OnSettled_retries(c, o) ==
    IF o.kind # "ok" /\ fetchCount < MaxSubmits
      THEN /\ inflight' = (inflight \ {c}) \cup
                  {[id |-> fetchCount + 1, payload |-> c.payload, startedAt |-> now]}
           /\ fetchCount' = fetchCount + 1
           /\ lastOutcome' = IF c.id = fetchCount THEN PendingOutcome ELSE lastOutcome
           /\ settled' = Settle(c, o)
           /\ UNCHANGED <<app, formData, formMounted, loading, result, error,
                          now, submitCount>>
           /\ UNCHANGED auxVars
      ELSE /\ tryCatchFinally(o)
           /\ inflight' = inflight \ {c}
           /\ IF ~HasErrorState /\ result' # <<>>
                THEN formMounted' = FALSE /\ formData' = InitialFormData
                ELSE UNCHANGED <<formMounted, formData>>
           /\ lastOutcome' = IF c.id = fetchCount THEN o ELSE lastOutcome
           /\ settled' = Settle(c, o)
           /\ UNCHANGED <<app, now, fetchCount, submitCount>>
           /\ UNCHANGED auxVars

(***************************************************************************)
(* The awaited fetch() of call c settles with outcome o and the handler    *)
(* that issued it runs to its end.                                         *)
(***************************************************************************)
OnSettled(c, o) ==
    /\ tryCatchFinally(o)
    /\ inflight' = inflight \ {c}
    \* {!rosterResult ? <form/> : <TripResults/>}: the inline build unmounts
    \* the form, and with it its formData, once a result is set
    /\ IF ~HasErrorState /\ result' # <<>>
         THEN formMounted' = FALSE /\ formData' = InitialFormData
         ELSE UNCHANGED <<formMounted, formData>>
    /\ lastOutcome' = IF c.id = fetchCount THEN o ELSE lastOutcome
    /\ settled' = Settle(c, o)
    /\ UNCHANGED <<app, now, fetchCount, submitCount>>
    /\ UNCHANGED auxVars

Resolve == \E c \in inflight : \E o \in Outcomes : OnSettled(c, o)

(***************************************************************************)
(* handleNewTrip / handleNewRoster, the onNewTrip button of TripResults,   *)
(* which is rendered while a result is set.                                *)
(***************************************************************************)
handleNewRoster ==
    /\ result # <<>>
    /\ result' = <<>>
    /\ error' = IF HasErrorState THEN <<>> ELSE error
    /\ formMounted' = TRUE
    /\ UNCHANGED <<app, formData, loading, inflight, now, fetchCount,
                   submitCount, lastOutcome, settled>>
    /\ UNCHANGED auxVars

\* passage of time
Tick ==
    /\ now + TickMs <= MaxNow
    /\ now' = now + TickMs
    /\ UNCHANGED <<app, formData, formMounted, loading, result, error,
                   inflight, fetchCount, submitCount, lastOutcome, settled>>
    /\ UNCHANGED auxVars

SetField == \E f \in DOMAIN formData : \E v \in FieldValues(f) : handleSelectChange(f, v)

Next ==
    \/ SetField
    \/ handleSubmit
    \/ Resolve
    \/ handleNewRoster
    \/ Tick

Spec == Init /\ [][Next]_vars

(***************************************************************************)
(* The submit handler driven by any holder of the onSubmit prop: the form  *)
(* element receives a submit event while the button is disabled, so that   *)
(* handleSubmit runs while an earlier call is still in flight.             *)
(***************************************************************************)
DirectSubmit ==
    /\ formMounted
    /\ handleSubmitGuard(formData)
    /\ handleBuildRoster(formData)

NextHandler ==
    \/ SetField
    \/ DirectSubmit
    \/ Resolve
    \/ handleNewRoster
    \/ Tick

SpecHandler == Init /\ [][NextHandler]_vars

(***************************************************************************)
(* The request state shown to the user.                                    *)
(***************************************************************************)
Visible == [loading |-> loading, result |-> result, error |-> error]

IdleVisible == [loading |-> FALSE, result |-> <<>>, error |-> <<>>]

\* the visible state that the outcome o of one call, taken alone, leads to
ExpectedVisible(o) ==
    [loading |-> FALSE,
     result |-> IF o.kind = "ok" THEN <<ResponseData(o)>>
                ELSE IF HasErrorState THEN <<>> ELSE <<ErrorData(o)>>,
     error |-> IF o.kind # "ok" /\ HasErrorState THEN <<ErrorMessage(o)>>
               ELSE <<>>]

SettledKinds == {"ok", "http", "network"}
FailureKinds == {"http", "network"}

\* this step is an accepted submission of the form's current data
SubmissionStep == submitCount' = submitCount + 1

(***************************************************************************)
(* C1: last-submission-wins.  Once no call is in flight, the visible       *)
(* request state is the one the most recently issued call's outcome leads  *)
(* to (or Idle after an explicit reset), whatever the order in which the   *)
(* calls settled.                                                          *)
(***************************************************************************)
LastSubmissionWins ==
    (inflight = {} /\ lastOutcome.kind \in SettledKinds)
        => (Visible = ExpectedVisible(lastOutcome) \/ Visible = IdleVisible)

(***************************************************************************)
(* C2: while the most recently issued call is in flight the visible state  *)
(* is Pending: loading, no result, no error; no earlier call's settlement  *)
(* changes that.                                                           *)
(***************************************************************************)
LatestInFlightStaysPending ==
    lastOutcome.kind = "pending"
        => (loading /\ result = <<>> /\ error = <<>>)

EmptyRequiredNeverSubmits ==
    [][(formMounted /\ \E f \in RequiredFields : formData[f] = "")
          => /\ submitCount' = submitCount
             /\ fetchCount' = fetchCount
             /\ inflight' = inflight
             /\ (UNCHANGED <<loading, result, error>> \/ handleNewRoster)]_vars

EmptyRequiredNeverSubmitsWitness ==
    /\ formMounted
    /\ ~loading
    /\ \E f \in RequiredFields : formData[f] = ""
    /\ \E f \in RequiredFields : formData[f] # ""
    /\ submitCount >= 1

(***************************************************************************)
(* C5: an accepted submission whose payload succeeded less than            *)
(* CacheDuration ago goes straight to Succeeded with the stored result and *)
(* issues no network call.                                                 *)
(***************************************************************************)
CachedResubmissionSkipsNetwork ==
    [][\A s \in settled :
          (s.kind = "ok" /\ now - s.at < CacheDuration
             /\ SubmissionStep /\ formData = s.payload)
          => (fetchCount' = fetchCount /\ ~loading'
                /\ result' = <<ResponseData(s)>>)]_vars

(***************************************************************************)
(* C6: every step either is an accepted submission that issues exactly one *)
(* network call, or issues none: the settlement of a call, failed or not,  *)
(* never issues a call.                                                    *)
(***************************************************************************)
NoAutomaticRetry ==
    [][\/ /\ submitCount' = submitCount + 1
          /\ fetchCount' = fetchCount + 1
          /\ Cardinality(inflight') = Cardinality(inflight) + 1
       \/ /\ submitCount' = submitCount
          /\ fetchCount' = fetchCount
          /\ inflight' \subseteq inflight]_vars

NoAutomaticRetryWitness ==
    /\ lastOutcome.kind \in FailureKinds
    /\ inflight = {}
    /\ fetchCount >= 1
    /\ fetchCount < MaxSubmits
    /\ fetchCount = submitCount

(***************************************************************************)
(* C7: a failure is not stored.  An accepted submission of a payload whose *)
(* latest call failed issues a network call and enters Pending.            *)
(***************************************************************************)
FailureNotCached ==
    [][\A s \in settled :
          (s.kind \in FailureKinds /\ SubmissionStep /\ formData = s.payload)
          => (fetchCount' = fetchCount + 1 /\ loading'
                /\ result' = <<>> /\ error' = <<>>
                /\ \E c \in inflight' \ inflight : c.payload = s.payload)]_vars

FailureNotCachedWitness ==
    \E s \in settled : \E c \in inflight :
        /\ s.kind = "http"
        /\ s.status = 429
        /\ c.payload = s.payload
        /\ c.startedAt >= s.at

(***************************************************************************)
(* C8: when the latest call comes back with a non-2xx status, the request  *)
(* state becomes Failed: error holds the message with that status, no      *)
(* result is set and loading is false.                                     *)
(***************************************************************************)
HttpFailureIsFailed ==
    [][(lastOutcome.kind = "pending" /\ lastOutcome'.kind = "http")
          => /\ error' = <<HttpErrorMessage(lastOutcome'.status)>>
             /\ result' = <<>>
             /\ ~loading']_vars

(***************************************************************************)
(* C9: no call is still in flight more than ApiTimeout after it started.   *)
(***************************************************************************)
PendingEndsAtTimeout ==
    \A c \in inflight : now - c.startedAt <= ApiTimeout

(***************************************************************************)
(* C10: the failure of the call in flight ends with loading false, and the *)
(* UI then offers a way to submit again: the mounted form's submit button  *)
(* is enabled whenever its data is valid, or the results view with its     *)
(* reset button is shown.                                                  *)
(***************************************************************************)
FailureLeavesRetryable ==
    [][(lastOutcome.kind = "pending" /\ lastOutcome'.kind \in FailureKinds)
          => /\ ~loading'
             /\ (formMounted' \/ result' # <<>>)
             /\ ((formMounted' /\ isFormValid(formData')) => ~SubmitDisabled')]_vars

FailureLeavesRetryableWitness ==
    /\ lastOutcome.kind \in FailureKinds
    /\ ~loading
    /\ formMounted
    /\ isFormValid(formData)
    /\ ~SubmitDisabled
    /\ error # <<>>

(***************************************************************************)
(* The App at rest, for the specifications of the parts that run beside    *)
(* it: the roster build as constructed, no submission made.                *)
(***************************************************************************)
AppAtRest ==
    /\ app = "roster"
    /\ formData = InitialFormData
    /\ formMounted = TRUE
    /\ loading = FALSE
    /\ result = <<>>
    /\ error = <<>>
    /\ inflight = {}
    /\ fetchCount = 0
    /\ submitCount = 0
    /\ lastOutcome = NoOutcome
    /\ settled = {}

(***************************************************************************)
(* Response cache: get(fingerprint) and set(fingerprint, value, ttlMs)     *)
(* over a store of entries, with a lazy purge on get and a sweep.          *)
(***************************************************************************)
Fingerprints == {"fpA", "fpB"}
CacheValues == {"v1", "v2"}
CacheTtls == {TickMs, 2 * TickMs}

\* a get that serves whatever is stored, expired or not
get_servesExpired(fp) ==
    IF \E e \in cache : e.fingerprint = fp
      THEN <<(CHOOSE e \in cache : e.fingerprint = fp).value>>
      ELSE <<>>

\* get(fingerprint) -> value | absent: an entry is consulted only while
\* now < expiresAt
get(fp) ==
    IF \E e \in cache : e.fingerprint = fp /\ now < e.expiresAt
      THEN <<(CHOOSE e \in cache : e.fingerprint = fp /\ now < e.expiresAt).value>>
      ELSE <<>>

\* a get as an operation: the expired entry of the key is purged
cacheGet(fp) ==
    /\ lastGet' = [fingerprint |-> fp, value |-> get(fp), at |-> now]
    /\ lastGet' # lastGet
    /\ cache' = {e \in cache : e.fingerprint # fp \/ now < e.expiresAt}
    /\ UNCHANGED <<appVars, now, optVars, fpVars, lastSet, utilVars, healthVars, lazyVars>>

\* set(fingerprint, value, ttlMs): the entry of the key is replaced
cacheSet(fp, v, ttl) ==
    /\ cache' = {e \in cache : e.fingerprint # fp}
          \cup {[fingerprint |-> fp, value |-> v, storedAt |-> now,
                 expiresAt |-> now + ttl]}
    /\ lastSet' = {x \in lastSet : x.fingerprint # fp}
          \cup {[fingerprint |-> fp, value |-> v, at |-> now, ttl |-> ttl]}
    /\ cache' # cache
    /\ UNCHANGED <<appVars, now, optVars, fpVars, lastGet, utilVars, healthVars, lazyVars>>

\* the sweep removes the expired entries
cacheSweep ==
    /\ \E e \in cache : now >= e.expiresAt
    /\ cache' = {e \in cache : now < e.expiresAt}
    /\ UNCHANGED <<appVars, now, optVars, fpVars, lastSet, lastGet, utilVars, healthVars, lazyVars>>

CacheTick ==
    /\ now + TickMs <= MaxNow
    /\ now' = now + TickMs
    /\ UNCHANGED <<appVars, auxVars>>

CacheGetStep == \E fp \in Fingerprints : cacheGet(fp)

CacheSetStep ==
    \E fp \in Fingerprints : \E v \in CacheValues : \E ttl \in CacheTtls :
        cacheSet(fp, v, ttl)

InitCache == AppAtRest /\ now = 0 /\ AuxInit

NextCache ==
    \/ CacheGetStep
    \/ CacheSetStep
    \/ cacheSweep
    \/ CacheTick

SpecCache == InitCache /\ [][NextCache]_vars

(***************************************************************************)
(* C11: for every key, get returns the value of the latest set made with   *)
(* ttl T at time t0 at every time in [t0, t0+T) and nothing at every time  *)
(* >= t0+T, whether the expired entry is still stored or was swept.        *)
(***************************************************************************)
CacheTtlRule ==
    \A s \in lastSet :
        get(s.fingerprint) = IF now < s.at + s.ttl THEN <<s.value>> ELSE <<>>

CacheTtlRuleWitness ==
    \E e1 \in cache : \E e2 \in cache :
        /\ now < e1.expiresAt
        /\ now > e1.storedAt
        /\ get(e1.fingerprint) = <<e1.value>>
        /\ now >= e2.expiresAt
        /\ get(e2.fingerprint) = <<>>
        /\ lastGet.at = now
        /\ lastGet.fingerprint = e1.fingerprint
        /\ lastGet.value = <<e1.value>>

(***************************************************************************)
(* PerformanceUtils.debounce(func, wait) with wait = ui.debounceDelay.     *)
(* A timer that is due runs before anything else happens at that instant.  *)
(***************************************************************************)
CallArgs == {"a", "b"}

Min(a, b) == IF a <= b THEN a ELSE b

\* a debounced callable that never clears the pending timeout: while one is
\* pending a call schedules nothing, so the first call of a burst wins
debounced_keepsFirst(args) ==
    /\ Len(calls) < MaxCalls
    /\ ~(timeout # <<>> /\ timeout[1].due <= now)
    /\ timeout' = IF timeout # <<>> THEN timeout
                  ELSE <<[due |-> now + DebounceDelay, args |-> args]>>
    /\ calls' = Append(calls, [at |-> now, args |-> args])
    /\ UNCHANGED <<appVars, now, optVars, fpVars, lazyVars, cacheVars, healthVars, inThrottle, throttleTimer, invoked>>

\* executedFunction(...args): clearTimeout(timeout);
\* timeout = setTimeout(later, wait)
debounced(args) ==
    /\ Len(calls) < MaxCalls
    /\ ~(timeout # <<>> /\ timeout[1].due <= now)
    /\ timeout' = <<[due |-> now + DebounceDelay, args |-> args]>>
    /\ calls' = Append(calls, [at |-> now, args |-> args])
    /\ UNCHANGED <<appVars, now, optVars, fpVars, lazyVars, cacheVars, healthVars, inThrottle, throttleTimer, invoked>>

\* later = () => { clearTimeout(timeout); func(...args); }
later ==
    /\ timeout # <<>>
    /\ timeout[1].due <= now
    /\ invoked' = Append(invoked, [at |-> now, args |-> timeout[1].args])
    /\ timeout' = <<>>
    /\ UNCHANGED <<appVars, now, optVars, fpVars, lazyVars, cacheVars, healthVars, inThrottle, throttleTimer, calls>>

DebounceTick ==
    /\ now < MaxUtilNow
    /\ ~(timeout # <<>> /\ timeout[1].due <= now)
    /\ now' = IF timeout # <<>> THEN Min(now + UtilTickMs, timeout[1].due)
              ELSE now + UtilTickMs
    /\ UNCHANGED <<appVars, auxVars>>

DebouncedCall == \E args \in CallArgs : debounced(args)

InitDebounce == AppAtRest /\ now = 0 /\ AuxInit

NextDebounce ==
    \/ DebouncedCall
    \/ later
    \/ DebounceTick

SpecDebounce == InitDebounce /\ [][NextDebounce]_vars

\* indexes of the calls that end a burst: no call follows within the window
BurstEnds(w) ==
    {i \in 1..Len(calls) : i = Len(calls) \/ calls[i + 1].at - calls[i].at >= w}

\* the timer of the last call is due at this very instant and has not run yet
DebounceDueNow ==
    /\ timeout # <<>>
    /\ timeout[1].due = now

\* indexes of the burst ends whose quiet period is over
QuietBurstEnds ==
    {i \in BurstEnds(DebounceDelay) :
        \/ calls[i].at + DebounceDelay < now
        \/ calls[i].at + DebounceDelay = now /\ ~(i = Len(calls) /\ DebounceDueNow)}

(***************************************************************************)
(* C12: the invocations of the underlying function are exactly one per     *)
(* burst of calls spaced less than the window apart: in the order of the   *)
(* bursts, each at the window after the burst's last call and with that    *)
(* call's arguments.                                                       *)
(***************************************************************************)
DebounceCoalesces ==
    /\ Len(invoked) = Cardinality(QuietBurstEnds)
    /\ \A k \in 1..Len(invoked) :
          \E i \in QuietBurstEnds :
              /\ Cardinality({j \in QuietBurstEnds : j <= i}) = k
              /\ invoked[k] = [at |-> calls[i].at + DebounceDelay,
                               args |-> calls[i].args]

DebounceCoalescesWitness ==
    /\ Len(calls) = 3
    /\ calls[2].at > calls[1].at
    /\ calls[2].at - calls[1].at < DebounceDelay
    /\ calls[3].at > calls[2].at
    /\ calls[3].at - calls[2].at < DebounceDelay
    /\ calls[3].args # calls[2].args
    /\ Len(invoked) = 1
    /\ invoked[1].args = calls[3].args

(***************************************************************************)
(* PerformanceUtils.throttle(func, limit) with limit = ui.throttleDelay.   *)
(***************************************************************************)
\* a throttled callable that never raises inThrottle
throttled_neverThrottles(args) ==
    /\ Len(calls) < MaxCalls
    /\ ~(throttleTimer # <<>> /\ throttleTimer[1] <= now)
    /\ calls' = Append(calls, [at |-> now, args |-> args])
    /\ invoked' = Append(invoked, [at |-> now, args |-> args])
    /\ throttleTimer' = <<now + ThrottleDelay>>
    /\ UNCHANGED <<appVars, now, optVars, fpVars, lazyVars, cacheVars, healthVars, timeout, inThrottle>>

\* function() { if (!inThrottle) { func.apply(context, args);
\*   inThrottle = true; setTimeout(() => inThrottle = false, limit); } }
throttled(args) ==
    /\ Len(calls) < MaxCalls
    /\ ~(throttleTimer # <<>> /\ throttleTimer[1] <= now)
    /\ calls' = Append(calls, [at |-> now, args |-> args])
    /\ IF ~inThrottle
         THEN /\ invoked' = Append(invoked, [at |-> now, args |-> args])
              /\ inThrottle' = TRUE
              /\ throttleTimer' = <<now + ThrottleDelay>>
         ELSE UNCHANGED <<invoked, inThrottle, throttleTimer>>
    /\ UNCHANGED <<appVars, now, optVars, fpVars, lazyVars, cacheVars, healthVars, timeout>>

\* () => inThrottle = false
throttleRelease ==
    /\ throttleTimer # <<>>
    /\ throttleTimer[1] <= now
    /\ inThrottle' = FALSE
    /\ throttleTimer' = <<>>
    /\ UNCHANGED <<appVars, now, optVars, fpVars, lazyVars, cacheVars, healthVars, timeout, calls, invoked>>

ThrottleTick ==
    /\ now < MaxUtilNow
    /\ ~(throttleTimer # <<>> /\ throttleTimer[1] <= now)
    /\ now' = IF throttleTimer # <<>> THEN Min(now + UtilTickMs, throttleTimer[1])
              ELSE now + UtilTickMs
    /\ UNCHANGED <<appVars, auxVars>>

ThrottledCall == \E args \in CallArgs : throttled(args)

InitThrottle == AppAtRest /\ now = 0 /\ AuxInit

NextThrottle ==
    \/ ThrottledCall
    \/ throttleRelease
    \/ ThrottleTick

SpecThrottle == InitThrottle /\ [][NextThrottle]_vars

\* the calls among the first n that the interval rule lets through: the first
\* one, and each one made at least the interval after the last one let through
RECURSIVE Accepted(_)
Accepted(n) ==
    IF n = 0 THEN <<>>
    ELSE LET prev == Accepted(n - 1)
             c == calls[n]
         IN  IF prev = <<>> \/ c.at - prev[Len(prev)].at >= ThrottleDelay
               THEN Append(prev, c)
               ELSE prev

(***************************************************************************)
(* C13: the invocations of the underlying function are exactly the calls   *)
(* the interval rule lets through, each invoked at the time of its call    *)
(* with its arguments: the first call, and every first call made once the  *)
(* interval has elapsed since the last accepted one; every other call is   *)
(* dropped for good, and two invocations are at least the interval apart.  *)
(***************************************************************************)
ThrottleDrops ==
    /\ invoked = Accepted(Len(calls))
    /\ \A i \in 1..Len(invoked) : \A j \in 1..Len(invoked) :
          i < j => invoked[j].at - invoked[i].at >= ThrottleDelay

ThrottleDropsWitness ==
    /\ Len(calls) = 3
    /\ calls[2].at > calls[1].at
    /\ calls[2].at - calls[1].at < ThrottleDelay
    /\ calls[3].at - calls[1].at = ThrottleDelay
    /\ invoked = <<calls[1], calls[3]>>
    /\ now > calls[3].at

(***************************************************************************)
(* The model health monitor of the roster form and the ModelSelector it    *)
(* renders.  A health body is the parsed JSON of GET /models/health: an    *)
(* object that has a boolean for some of the two backends.                 *)
(***************************************************************************)
Backends == {"openai", "ollama"}

\* the form variant without model_type, ModelSelector and health probe
HasModelSelector == formVersion # "noModelSelector"

HealthBodies == UNION {[d -> BOOLEAN] : d \in SUBSET Backends}

\* what fetch('/models/health') can settle with: a response (ok or not)
\* whose body parses to a health body (<<b>>) or does not parse (<<>>),
\* or a rejection
ProbeOutcomes ==
    [kind : {"ok", "http"}, body : {<<b>> : b \in HealthBodies} \cup {<<>>}]
        \cup {[kind |-> "network", body |-> <<>>]}

ProbeFailureKinds == {"http", "network"}

\* modelStatus.openai as a condition: a missing key reads undefined
Available(status, m) == m \in DOMAIN status /\ status[m]

AllUnavailable == [m \in Backends |-> FALSE]

(***************************************************************************)
(* A monitor that treats a body lacking a backend's key as a failed probe. *)
(***************************************************************************)
healthAfter_requiresEveryKey(o) ==
    IF formVersion = "resetsOnFailure"
      THEN IF o.body # <<>> /\ DOMAIN o.body[1] = Backends
             THEN o.body[1] ELSE AllUnavailable
      ELSE IF o.kind = "ok" /\ o.body # <<>> /\ DOMAIN o.body[1] = Backends
             THEN o.body[1] ELSE modelStatus

(***************************************************************************)
(* checkModelHealth after its await: the value modelStatus has once a      *)
(* probe has settled with o.  One form stores whatever body parses, of any *)
(* response, and resets to all-false in its catch; the other stores the    *)
(* body of an ok response only and its catch just logs.                    *)
(***************************************************************************)
healthAfter(o) ==
    IF formVersion = "resetsOnFailure"
      THEN IF o.body # <<>> THEN o.body[1] ELSE AllUnavailable
      ELSE IF o.kind = "ok" /\ o.body # <<>> THEN o.body[1] ELSE modelStatus

\* useEffect(() => { checkModelHealth(); }, []): the effect issues a probe;
\* under React.StrictMode it runs twice on mount
checkModelHealth ==
    /\ formMounted
    /\ HasModelSelector
    /\ probeCount < MaxProbes
    /\ probes' = probes \cup {probeCount + 1}
    /\ probeCount' = probeCount + 1
    /\ UNCHANGED <<appVars, now, optVars, fpVars, lazyVars, cacheVars, utilVars,
                   formVersion, modelStatus, modelType, lastProbe>>

\* probe p settles with outcome o
OnProbeSettled(p, o) ==
    /\ modelStatus' = healthAfter(o)
    /\ probes' = probes \ {p}
    /\ lastProbe' = [id |-> p, kind |-> o.kind]
    /\ UNCHANGED <<appVars, now, optVars, fpVars, lazyVars, cacheVars, utilVars,
                   formVersion, modelType, probeCount>>

ProbeSettles == \E p \in probes : \E o \in ProbeOutcomes : OnProbeSettled(p, o)

\* handleModelChange, from the RadioGroup of ModelSelector, whose
\* FormControl is disabled while loading
handleModelChange(m) ==
    /\ formMounted
    /\ HasModelSelector
    /\ ~loading
    /\ modelType # m
    /\ modelType' = m
    /\ UNCHANGED <<appVars, now, optVars, fpVars, lazyVars, cacheVars, utilVars,
                   formVersion, modelStatus, probes, probeCount, lastProbe>>

ModelChange == \E m \in Backends : handleModelChange(m)

InitHealth == AppAtRest /\ now = 0 /\ CacheInit /\ UtilInit /\ HealthInit /\ LazyInit /\ OptInit /\ FpInit

\* the submit button, for as many submissions as this specification follows
HealthSubmit == submitCount < MaxHealthSubmits /\ handleSubmit

NextHealth ==
    \/ SetField
    \/ HealthSubmit
    \/ Resolve
    \/ handleNewRoster
    \/ checkModelHealth
    \/ ProbeSettles
    \/ ModelChange

SpecHealth == InitHealth /\ [][NextHealth]_vars

\* the step in which a probe settles
ProbeSettledStep == lastProbe' # lastProbe

(***************************************************************************)
(* C14.  Whenever a health probe fails (network error, or a non-success    *)
(* HTTP response), the status afterwards has every backend unavailable:    *)
(* no available entry survives a failed probe.                             *)
(***************************************************************************)
FailedProbeClearsStatus ==
    [][(ProbeSettledStep /\ lastProbe'.kind \in ProbeFailureKinds)
          => \A m \in Backends : ~Available(modelStatus', m)]_vars

(***************************************************************************)
(* What ModelSelector renders from its props selectedModel and             *)
(* modelStatus.                                                            *)
(***************************************************************************)
\* selectedModel={formData.model_type || 'openai'}
selectedModel == IF modelType = "" THEN "openai" ELSE modelType

\* label={modelStatus.openai ? "Online" : "Offline"}
ChipLabel(status, m) == IF Available(status, m) THEN "Online" ELSE "Offline"

\* the severity="warning" Alert
WarningShown ==
    ~Available(modelStatus, "openai") /\ ~Available(modelStatus, "ollama")

\* error Alerts for the local model only
ErrorAlerts_ollamaOnly ==
    {m \in {"ollama"} : selectedModel = m /\ ~Available(modelStatus, m)}

\* the severity="error" Alerts: one conditional per backend
ErrorAlerts ==
    {m \in Backends : selectedModel = m /\ ~Available(modelStatus, m)}

(***************************************************************************)
(* C15.  When the body of an ok /models/health response lacks the openai   *)
(* or the ollama key, that backend is shown Offline, the probe is not      *)
(* handled as a failure, and the other backend keeps the reported value.   *)
(***************************************************************************)
MissingKeyReadsOffline ==
    [][\A p \in probes : \A o \in ProbeOutcomes :
          (/\ o.kind = "ok"
           /\ o.body # <<>>
           /\ DOMAIN o.body[1] # Backends
           /\ OnProbeSettled(p, o))
          => \A m \in Backends :
                ChipLabel(modelStatus', m) =
                    IF m \in DOMAIN o.body[1] /\ o.body[1][m]
                      THEN "Online" ELSE "Offline"]_vars

MissingKeyReadsOfflineWitness ==
    /\ lastProbe.kind = "ok"
    /\ DOMAIN modelStatus = {"openai"}
    /\ ChipLabel(modelStatus, "openai") = "Online"
    /\ ChipLabel(modelStatus, "ollama") = "Offline"
    /\ error = <<>>

(***************************************************************************)
(* C16.  Availability never blocks a submission: whatever modelStatus and  *)
(* the selected model are, a mounted form with every required field filled *)
(* and no call pending can submit, and the submission issues the call.     *)
(***************************************************************************)
AvailabilityNeverBlocksSubmit ==
    (/\ formMounted
     /\ ~loading
     /\ isFormValid(formData)
     /\ fetchCount < MaxSubmits
     /\ Cardinality(inflight) < MaxInFlight)
        => ENABLED handleSubmit

\* a call in flight that was submitted with ollama selected while the only
\* probe had failed and both backends were shown Offline
AvailabilityNeverBlocksSubmitWitness ==
    /\ inflight # {}
    /\ loading
    /\ selectedModel = "ollama"
    /\ formVersion = "resetsOnFailure"
    /\ probeCount = 1
    /\ probes = {}
    /\ lastProbe.kind = "network"
    /\ WarningShown
    /\ ErrorAlerts = {"ollama"}

(***************************************************************************)
(* C17.  While the form is mounted: if the selected backend is unavailable *)
(* in modelStatus, its chip reads Offline and its error alert is shown;    *)
(* if both backends are unavailable the warning is shown.                  *)
(***************************************************************************)
DegradedStatusDisplayed ==
    formMounted =>
        /\ ~Available(modelStatus, selectedModel) =>
              /\ ChipLabel(modelStatus, selectedModel) = "Offline"
              /\ selectedModel \in ErrorAlerts
        /\ (\A m \in Backends : ~Available(modelStatus, m)) => WarningShown

\* openai selected and reported unavailable by an ok probe that reports
\* ollama available: error alert without the warning
DegradedStatusDisplayedWitness ==
    /\ formMounted
    /\ lastProbe.kind = "ok"
    /\ selectedModel = "openai"
    /\ ~Available(modelStatus, "openai")
    /\ Available(modelStatus, "ollama")
    /\ ErrorAlerts = {"openai"}
    /\ ~WarningShown

(***************************************************************************)
(* The lazily loaded components: RosterBuilderForm = lazy(() =>            *)
(* import('./RosterBuilderForm')) and TripResults, rendered inside         *)
(* Suspense.  lazy() makes one handle per declaration; a render of the     *)
(* component is a request for the module.  The first render calls the      *)
(* loader and suspends, a render while the import is pending suspends on   *)
(* the same promise, a render after it resolved gets the module at once,   *)
(* and a render after it was rejected throws the error again.              *)
(***************************************************************************)
\* a handle that calls its loader again for a render while the import is
\* still pending
ctorRuns_whilePending(status) == status \in {"Uninitialized", "Pending"}

\* whether a render calls the loader () => import(...)
ctorRuns(status) == status = "Uninitialized"

\* a handle that starts over when the component is rendered again after
\* its module arrived
statusAfterRender_reloadsReady(status) ==
    IF status \in {"Uninitialized", "Resolved"} THEN "Pending" ELSE status

\* the handle's status once a render has read it
statusAfterRender(status) ==
    IF status = "Uninitialized" THEN "Pending" ELSE status

\* a render of <RosterBuilderForm/> or <TripResults/> inside its Suspense
renderLazy(n) ==
    /\ renderCount[n] < MaxRenders
    /\ renderCount' = [renderCount EXCEPT ![n] = @ + 1]
    /\ lazyLoads' = [lazyLoads EXCEPT
                        ![n] = IF ctorRuns(lazyStatus[n]) THEN @ + 1 ELSE @]
    /\ lazyStatus' = [lazyStatus EXCEPT ![n] = statusAfterRender(@)]
    /\ lazyModule' = [lazyModule EXCEPT
                        ![n] = IF lazyStatus'[n] = "Resolved" THEN @ ELSE <<>>]
    /\ suspended' = [suspended EXCEPT
                        ![n] = IF lazyStatus'[n] = "Pending"
                                 THEN @ \cup {renderCount[n] + 1} ELSE @]
    /\ delivered' = [delivered EXCEPT
                        ![n] = CASE lazyStatus'[n] = "Resolved" ->
                                      @ \cup {[render |-> renderCount[n] + 1,
                                               module |-> lazyModule[n]]}
                                 [] lazyStatus'[n] = "Rejected" ->
                                      @ \cup {[render |-> renderCount[n] + 1,
                                               module |-> <<>>]}
                                 [] OTHER -> @]
    /\ UNCHANGED <<appVars, now, optVars, fpVars, cacheVars, utilVars, healthVars>>

\* the import() of n resolves with the module its latest load evaluated;
\* the suspended renders are retried and get it
importResolves(n) ==
    /\ lazyStatus[n] = "Pending"
    /\ lazyStatus' = [lazyStatus EXCEPT ![n] = "Resolved"]
    /\ lazyModule' = [lazyModule EXCEPT ![n] = <<lazyLoads[n]>>]
    /\ delivered' = [delivered EXCEPT
                        ![n] = @ \cup {[render |-> r, module |-> <<lazyLoads[n]>>]
                                          : r \in suspended[n]}]
    /\ suspended' = [suspended EXCEPT ![n] = {}]
    /\ UNCHANGED <<appVars, now, optVars, fpVars, cacheVars, utilVars, healthVars,
                   lazyLoads, renderCount>>

\* the import() of n is rejected (the chunk cannot be fetched); the
\* suspended renders throw the error
importRejects(n) ==
    /\ lazyStatus[n] = "Pending"
    /\ lazyStatus' = [lazyStatus EXCEPT ![n] = "Rejected"]
    /\ delivered' = [delivered EXCEPT
                        ![n] = @ \cup {[render |-> r, module |-> <<>>]
                                          : r \in suspended[n]}]
    /\ suspended' = [suspended EXCEPT ![n] = {}]
    /\ UNCHANGED <<appVars, now, optVars, fpVars, cacheVars, utilVars, healthVars,
                   lazyLoads, lazyModule, renderCount>>

RenderStep == \E n \in LazyNames : renderLazy(n)
ImportResolvesStep == \E n \in LazyNames : importResolves(n)
ImportRejectsStep == \E n \in LazyNames : importRejects(n)

InitLazy == AppAtRest /\ now = 0 /\ AuxInit

NextLazy ==
    \/ RenderStep
    \/ ImportResolvesStep
    \/ ImportRejectsStep

SpecLazy == InitLazy /\ [][NextLazy]_vars

\* the load states of the handle, in the words of the specification
LoadState(n) ==
    CASE lazyStatus[n] = "Uninitialized" -> "NotRequested"
      [] lazyStatus[n] = "Pending"       -> "Loading"
      [] lazyStatus[n] = "Resolved"      -> "Ready"
      [] lazyStatus[n] = "Rejected"      -> "Failed"

(***************************************************************************)
(* C18.  Requests for the same lazy module made before its load resolves   *)
(* share one load (the loader has run exactly once while several renders   *)
(* are suspended) and all renders that get a module get the same one; and  *)
(* no step runs the loader of a handle that is Loading or Ready.           *)
(***************************************************************************)
LazySingleLoad ==
    /\ [](\A n \in LazyNames :
            /\ suspended[n] # {} => lazyLoads[n] = 1
            /\ \A x, y \in delivered[n] :
                  (x.module # <<>> /\ y.module # <<>>) => x.module = y.module)
    /\ [][\A n \in LazyNames :
            LoadState(n) \in {"Loading", "Ready"} => lazyLoads'[n] = lazyLoads[n]]_vars

\* two renders were suspended on the one load, a third came after it
\* resolved, and all three got the module of load 1
LazySingleLoadWitness ==
    \E n \in LazyNames :
        /\ LoadState(n) = "Ready"
        /\ lazyLoads[n] = 1
        /\ Cardinality(delivered[n]) >= 3
        /\ \A x \in delivered[n] : x.module = <<1>>

(***************************************************************************)
(* C19.  The load state of a lazy handle only moves forward: NotRequested  *)
(* to Loading, Loading to Ready or Failed; a Ready handle stays Ready.     *)
(***************************************************************************)
LazyLoadStateMonotonic ==
    [][\A n \in LazyNames :
          \/ LoadState(n)' = LoadState(n)
          \/ LoadState(n) = "NotRequested" /\ LoadState(n)' = "Loading"
          \/ LoadState(n) = "Loading" /\ LoadState(n)' \in {"Ready", "Failed"}]_vars

\* one handle Ready and rendered again since, the other Failed
LazyLoadStateMonotonicWitness ==
    \E n, k \in LazyNames :
        /\ LoadState(n) = "Ready"
        /\ Cardinality(delivered[n]) >= 2
        /\ suspended[n] = {}
        /\ LoadState(k) = "Failed"

(***************************************************************************)
(* The request state read off the three state variables of App.            *)
(***************************************************************************)
RequestTags ==
    {t \in {"Idle", "Pending", "Succeeded", "Failed"} :
        CASE t = "Pending"   -> loading
          [] t = "Succeeded" -> result # <<>>
          [] t = "Failed"    -> error # <<>>
          [] t = "Idle"      -> ~loading /\ result = <<>> /\ error = <<>>}

FpKeyOrder == <<"model_type", "season", "strategy", "team">>

FpValues(k) ==
    CASE k = "team"       -> {"Las Vegas Aces", "Minnesota Lynx"}
      [] k = "season"     -> {"2025"}
      [] k = "strategy"   -> {"championship"}
      [] k = "model_type" -> {"openai", "ollama"}

FpKeys(p) == {p[i][1] : i \in DOMAIN p}

\* payload[k]
FpValueOf(p, k) == p[CHOOSE i \in DOMAIN p : p[i][1] = k][2]

\* a fingerprint that serialises the fields as they were inserted
fingerprint_insertionOrder(p) == p

\* fingerprint(payload): the fields of p serialised in key order
fingerprint(p) ==
    LET IsPresent(k) == k \in FpKeys(p)
        ordered == SelectSeq(FpKeyOrder, IsPresent)
    IN  [i \in 1..Len(ordered) |-> <<ordered[i], FpValueOf(p, ordered[i])>>]

\* payload[k] = v for a key the payload does not have yet
insertField(k, v) ==
    /\ k \notin FpKeys(fpPayload)
    /\ fpPayload' = Append(fpPayload, <<k, v>>)
    /\ UNCHANGED <<appVars, now, cacheVars, utilVars, healthVars, lazyVars,
                   optVars, lastFp>>

InsertFieldStep ==
    \E i \in DOMAIN FpKeyOrder : \E v \in FpValues(FpKeyOrder[i]) :
        insertField(FpKeyOrder[i], v)

\* the fingerprint of the payload is computed
computeFingerprint ==
    /\ lastFp' = <<[payload |-> fpPayload, fp |-> fingerprint(fpPayload)]>>
    /\ lastFp' # lastFp
    /\ UNCHANGED <<appVars, now, cacheVars, utilVars, healthVars, lazyVars,
                   optVars, fpPayload>>

\* a new payload object is begun
newPayload ==
    /\ fpPayload # <<>>
    /\ fpPayload' = <<>>
    /\ UNCHANGED <<appVars, now, cacheVars, utilVars, healthVars, lazyVars,
                   optVars, lastFp>>

InitFingerprint == AppAtRest /\ now = 0 /\ AuxInit

NextFingerprint ==
    \/ InsertFieldStep
    \/ computeFingerprint
    \/ newPayload

SpecFingerprint == InitFingerprint /\ [][NextFingerprint]_vars

\* the payloads hold equal values for every field
SameFields(p, q) ==
    /\ FpKeys(p) = FpKeys(q)
    /\ \A k \in FpKeys(p) : FpValueOf(p, k) = FpValueOf(q, k)

PriorityLists == {<<>>, <<"defense">>, <<"defense", "leadership">>}

CapTargets == {"", "aggressive"}

\* handlePrioritiesChange
handlePrioritiesChange(v) ==
    /\ formMounted
    /\ app # "trip"
    /\ ~FieldsDisabled
    /\ priorities # v
    /\ priorities' = v
    /\ UNCHANGED <<appVars, now, cacheVars, utilVars, healthVars, lazyVars,
                   fpVars, capTarget>>

\* handleSelectChange for the field named cap_target
handleCapTargetChange(v) ==
    /\ formMounted
    /\ app # "trip"
    /\ ~FieldsDisabled
    /\ capTarget # v
    /\ capTarget' = v
    /\ UNCHANGED <<appVars, now, cacheVars, utilVars, healthVars, lazyVars,
                   fpVars, priorities>>

PrioritiesChange == \E v \in PriorityLists : handlePrioritiesChange(v)
CapTargetChange == \E v \in CapTargets : handleCapTargetChange(v)

\* onSubmit(formData): the whole formData object of the roster form
onSubmitArg ==
    IF HasModelSelector
      THEN formData @@ [priorities |-> priorities, cap_target |-> capTarget,
                        model_type |-> modelType]
      ELSE formData @@ [priorities |-> priorities, cap_target |-> capTarget]

InitForm ==
    /\ AppAtRest /\ now = 0
    /\ CacheInit /\ UtilInit /\ HealthInit /\ LazyInit /\ OptInit /\ FpInit

NextForm ==
    \/ SetField
    \/ PrioritiesChange
    \/ CapTargetChange
    \/ ModelChange
    \/ HealthSubmit
    \/ Resolve
    \/ handleNewRoster

SpecForm == InitForm /\ [][NextForm]_vars

(***************************************************************************)
(* C22.  A submission of the roster form invokes onSubmit with exactly     *)
(* {team, season, strategy, priorities, cap_target} holding the selected   *)
(* values, priorities [] and cap_target '' when none was chosen, and no    *)
(* further field.                                                          *)
(***************************************************************************)
SubmitsExactlyFiveFields ==
    [][SubmissionStep =>
          onSubmitArg = [team |-> formData["team"],
                         season |-> formData["season"],
                         strategy |-> formData["strategy"],
                         priorities |-> priorities,
                         cap_target |-> capTarget]]_vars

(***************************************************************************)
(* C23.  In every state of the roster form the submit button is disabled   *)
(* if and only if loading is true or one of team, season, strategy is      *)
(* empty; it is disabled in the initial state.                             *)
(***************************************************************************)
ButtonDisabledIff ==
    (app # "trip" /\ formMounted) =>
        /\ SubmitDisabled <=>
              (loading \/ \E f \in {"team", "season", "strategy"} : formData[f] = "")
        /\ (formData = InitialFormData /\ ~loading) => SubmitDisabled

\* the button enabled by the last of the three selections, and the button
\* disabled again by loading with the three still selected
ButtonDisabledIffWitness ==
    /\ formMounted
    /\ \A f \in {"team", "season", "strategy"} : formData[f] # ""
    /\ loading
    /\ SubmitDisabled
    /\ inflight # {}

(***************************************************************************)
(* C24.  While loading is true every input of the roster form is disabled, *)
(* so that team, season, strategy, priorities and cap target do not change *)
(* between the start of a request and its resolution.                      *)
(***************************************************************************)
FieldsLockedWhileLoading ==
    [][(app # "trip" /\ formMounted /\ loading /\ loading') =>
          /\ FieldsDisabled
          /\ formData' = formData
          /\ priorities' = priorities
          /\ capTarget' = capTarget]_vars

(***************************************************************************)
(* C25.  Starting a submission from any state moves the request state      *)
(* directly to Pending: with the call issued, loading is true and the      *)
(* previous result and the previous error are both cleared.                *)
(***************************************************************************)
SubmissionGoesPending ==
    [][SubmissionStep =>
          /\ loading'
          /\ result' = <<>>
          /\ error' = <<>>
          /\ RequestTags' = {"Pending"}
          /\ inflight' # {}]_vars

\* Pending again after one call had succeeded and another had failed
SubmissionGoesPendingWitness ==
    /\ RequestTags = {"Pending"}
    /\ lastOutcome = PendingOutcome
    /\ \E s \in settled : s.kind = "ok"
    /\ \E s \in settled : s.kind \in FailureKinds

(***************************************************************************)
(* The build that renders the form only while no result is set:            *)
(* {!rosterResult ? <RosterBuilderForm/> : <TripResults/>}.  The form, and *)
(* with it formData, the model selection and modelStatus, is unmounted     *)
(* when a result is set, and handleNewRoster mounts a new form.            *)
(***************************************************************************)
\* handleNewRoster together with the mount of the new form instance: the
\* useState initial values, and the mount effect that probes the backends;
\* probes of the unmounted instance no longer reach any state
handleNewRosterRemount ==
    /\ app = "rosterInline"
    /\ result # <<>>
    /\ result' = <<>>
    /\ formMounted' = TRUE
    /\ formData' = InitialFormData
    /\ modelStatus' = AllUnavailable
    /\ modelType' = "openai"
    /\ priorities' = <<>>
    /\ capTarget' = ""
    /\ IF HasModelSelector /\ probeCount < MaxProbes
         THEN probes' = {probeCount + 1} /\ probeCount' = probeCount + 1
         ELSE probes' = {} /\ probeCount' = probeCount
    /\ UNCHANGED <<app, loading, error, inflight, fetchCount, submitCount,
                   lastOutcome, settled, now, cacheVars, utilVars, lazyVars,
                   fpVars, formVersion, lastProbe>>

InitInline ==
    /\ app = "rosterInline"
    /\ formData = InitialFormData
    /\ formMounted = TRUE
    /\ loading = FALSE
    /\ result = <<>>
    /\ error = <<>>
    /\ inflight = {}
    /\ fetchCount = 0
    /\ submitCount = 0
    /\ lastOutcome = NoOutcome
    /\ settled = {}
    /\ now = 0
    /\ CacheInit /\ UtilInit /\ HealthInit /\ LazyInit /\ OptInit /\ FpInit

NextInline ==
    \/ SetField
    \/ ModelChange
    \/ HealthSubmit
    \/ Resolve
    \/ handleNewRosterRemount
    \/ checkModelHealth
    \/ ProbeSettles

SpecInline == InitInline /\ [][NextInline]_vars

\* the step of an explicit reset: a result is cleared without a submission
ResetStep == result # <<>> /\ result' = <<>> /\ submitCount' = submitCount

(***************************************************************************)
(* C26.  An explicit reset returns the request state to Idle by clearing   *)
(* result and error; it issues no network call and leaves loading and      *)
(* modelStatus unchanged.                                                  *)
(***************************************************************************)
ResetOnlyClearsOutcome ==
    [][ResetStep =>
          /\ RequestTags' = {"Idle"}
          /\ loading' = loading
          /\ inflight' = inflight /\ fetchCount' = fetchCount
          /\ probes' = probes /\ probeCount' = probeCount
          /\ modelStatus' = modelStatus]_vars

(***************************************************************************)
(* C27.  A 2xx response is always committed as Succeeded with the body's   *)
(* result as content, whatever the result text is: rate-limit text inside  *)
(* result is not turned into a failure.                                    *)
(***************************************************************************)
OkResponseIsSucceeded ==
    [][\A c \in inflight : \A o \in Outcomes :
          (o.kind = "ok" /\ OnSettled(c, o)) =>
              /\ RequestTags' = {"Succeeded"}
              /\ result'[1].result = Text("", o.text, 0)
              /\ result'[1].agent_type # "error"]_vars

\* the rate-limit text shown as the result of a 200 response
OkResponseIsSucceededWitness ==
    /\ RequestTags = {"Succeeded"}
    /\ result[1].result = Text("", "rate limit reached, try again", 0)
    /\ result[1].agent_type # "error"
    /\ lastOutcome.kind = "ok"
    /\ lastOutcome.status = 200

(***************************************************************************)
(* C28.  With more than one health probe in flight, modelStatus after all  *)
(* probes have resolved is the result of the most recently issued probe:   *)
(* an earlier probe that resolves after the latest one changes nothing.    *)
(***************************************************************************)
LatestProbeWins ==
    [][\A p \in probes : \A o \in ProbeOutcomes :
          (/\ p < probeCount
           /\ probeCount \notin probes
           /\ OnProbeSettled(p, o))
          => modelStatus' = modelStatus]_vars

(***************************************************************************)
(* C29.  The guard of the submit handler and the enabled condition of the  *)
(* button agree: onSubmit is invoked only where isFormValid holds, so a    *)
(* required field of whitespace only reaches onSubmit by no submit path.   *)
(***************************************************************************)
GuardAgreesWithButton ==
    [][SubmissionStep =>
          /\ isFormValid(formData)
          /\ handleSubmitGuard(formData) <=> isFormValid(formData)]_vars

\* the step in which a call settles
ResolutionStep == inflight' # inflight /\ inflight' \subseteq inflight

(***************************************************************************)
(* C30.  A submission and the resolution of a submission leave the form's  *)
(* field values and the selected model unchanged; a health probe result    *)
(* changes modelStatus only, never the selected model or the request       *)
(* state.                                                                  *)
(***************************************************************************)
SubmitResolveProbeFrame ==
    [][/\ (SubmissionStep \/ ResolutionStep) =>
             /\ formData' = formData
             /\ priorities' = priorities
             /\ capTarget' = capTarget
             /\ modelType' = modelType
       /\ ProbeSettledStep =>
             /\ modelType' = modelType
             /\ formData' = formData
             /\ Visible' = Visible
             /\ inflight' = inflight]_vars

TypeOK ==
    /\ app \in Apps
    /\ loading \in BOOLEAN
    /\ formMounted \in BOOLEAN
    /\ Len(result) <= 1
    /\ Len(error) <= 1
    /\ fetchCount \in 0..MaxSubmits
    /\ now \in 0..MaxNow
    /\ formVersion \in FormVersions
    /\ modelStatus \in HealthBodies
    /\ modelType \in Backends
    /\ probeCount \in 0..MaxProbes
    /\ probes \subseteq 1..MaxProbes
    /\ \A n \in LazyNames : lazyStatus[n] \in LazyStatuses
    /\ \A n \in LazyNames : lazyLoads[n] \in 0..1
    /\ priorities \in PriorityLists
    /\ capTarget \in CapTargets
    /\ Len(fpPayload) <= Len(FpKeyOrder)
    /\ Len(lastFp) <= 1
====
